---- MODULE Spec2Model ----
(***************************************************************************)
(* Label-reconciliation pipeline of SwiftSale:                             *)
(*   annotate_labels_qt.annotate_whatnot_pdf_with_bins_and_firstname       *)
(*   mailing_list_manager.MailingListManager.add_or_update_entry           *)
(* One behaviour is one run of the annotator over one document, with a     *)
(* bin table loaded once and a mailing list that starts empty.             *)
(* Amounts are integer cents.                                              *)
(***************************************************************************)
EXTENDS Integers, Sequences, FiniteSets, TLC

(* ---------------------------- bounds ----------------------------------- *)
MaxPages == 3
MaxBin == 2

(* ------------------------- values of the run --------------------------- *)
\* Python None for the string-valued results (username, first name).
None == "<None>"

\* bin_map.get(username) when the username has no row: None, which the
\* code only ever tests for truthiness (`if bin_number:`), like 0.
NoBin == 0

\* Python truthiness of an optional string.
Truthy(s) == s # None /\ s # ""

Users == {"janed", "bobr"}

\* datetime.today().strftime("%Y-%m-%d"): one run, one day.
Today == "today"

\* f"PG{page_index:03}"
OrderId(i) == <<"PG", i>>

\* Result of parse_packing_slip_address when it returns None.  The parser
\* never returns an address with an empty full_name, so this record is no
\* address.
NoAddress ==
  [full_name |-> "", username |-> "", address_line_1 |-> "",
   address_line_2 |-> "", city |-> "", state |-> "", zip_code |-> "",
   country |-> ""]

Address(fn, un, l1, l2, zip) ==
  [full_name |-> fn, username |-> un, address_line_1 |-> l1,
   address_line_2 |-> l2, city |-> "Springfield", state |-> "IL",
   zip_code |-> zip, country |-> "US"]

\* One page of the document, as the three text extractors see it:
\* the marker tests, extract_username_and_pickup_firstname,
\* parse_packing_slip_address and extract_spent_amount.
Page(pickup, slip, un, first, addr, amount) ==
  [is_pickup |-> pickup, is_packing_slip |-> slip, username |-> un,
   first_name |-> first, address_data |-> addr, spent |-> amount]

ContinuationPages ==
  { Page(FALSE, FALSE, None, None, NoAddress, 500),
    Page(FALSE, FALSE, None, None, NoAddress, 225) }

NoUsernamePages ==
  { Page(FALSE, TRUE, None, None, NoAddress, 300) }

NoAddressPages ==
  { Page(FALSE, TRUE, "janed", "Jane Doe", NoAddress, 400),
    Page(TRUE, FALSE, "bobr", None, NoAddress, 400) }

ParsedPages ==
  { Page(FALSE, TRUE, "janed", "Jane Doe",
         Address("Jane Doe", "janed", "123 Main St", "Apt 2", "62704"), 1000),
    Page(TRUE, TRUE, "janed", "Jane Doe",
         Address("Jane Doe", "janed", "123 Main St", "", "62704"), 2000),
    Page(FALSE, TRUE, "bobr", None,
         Address("Bob Roe", "bobr", "1 Oak Ave", "", "43004"), 999),
    Page(TRUE, FALSE, "bobr", "Bob Roe",
         Address("Jane Doe", "bobr", "123 Main St", "Ste 5", "62704"), 700),
    Page(FALSE, TRUE, "janed", None,
         Address("Jane Doe", "janed", "123 Main St", "", "62705"), 150) }

PageSet ==
  ContinuationPages \cup NoUsernamePages \cup NoAddressPages \cup ParsedPages

RECURSIVE SeqsUpTo(_, _)
SeqsUpTo(S, n) ==
  IF n = 0 THEN { << >> }
  ELSE LET shorter == SeqsUpTo(S, n - 1)
       IN  shorter \cup { Append(s, x) : s \in { t \in shorter : Len(t) = n - 1 }, x \in S }

Documents == SeqsUpTo(PageSet, MaxPages)

\* bin_assignments rows, keyed by username.strip().lower().
BinTables ==
  UNION { [U -> 1..MaxBin] : U \in SUBSET Users }

VARIABLES
  pages,                 \* pdf_reader.pages / plumber_pdf.pages
  bin_map,
  pc,                    \* "loop", "eof", "write", "done", "failed"
  page_index,
  current_buyer,
  current_first_name,
  current_spent_total,
  current_address_data,
  saved_usernames,
  skipped_pages,
  out_pages,             \* pdf_writer
  mailing_list,          \* rows of table mailing_list, in id order
  calls,                 \* entries handed to add_or_update_entry, in order
  output_written,        \* output_pdf_path has been written
  page_text,             \* one page's text, as its lines (splitlines)
  bin_rows,              \* rows of bin_assignments: <<username, bin_number>>
  text_pc,               \* "off", "text", "identified", "parsed", "looked_up"
  identity,              \* result of extract_username_and_pickup_firstname
  parsed_address,        \* result of parse_packing_slip_address
  bin_number,            \* bin_map.get(current_buyer) for the page
  bin_assignments,       \* table bin_assignments: username -> bin_number
  bidders_table,         \* rows of table bidders, in id order
  bin_counter,           \* BidderManager.bin_counter
  giveaway_counter,      \* BidderManager.giveaway_counter
  bidders,               \* BidderManager.bidders, the in-memory cache
  last_call              \* the last BidderManager call and how it ended

\* the variables of the text functions
textVars ==
  <<page_text, bin_rows, text_pc, identity, parsed_address, bin_number>>

\* the variables of BidderManager and bidders.db
bidderVars ==
  <<bin_assignments, bidders_table, bin_counter, giveaway_counter, bidders,
    last_call>>

vars ==
  <<pages, bin_map, pc, page_index, current_buyer, current_first_name,
    current_spent_total, current_address_data, saved_usernames,
    skipped_pages, out_pages, mailing_list, calls, output_written,
    textVars, bidderVars>>

\* no BidderManager call has been made
NoCall ==
  [op |-> "none", username |-> << >>, is_giveaway |-> FALSE,
   outcome |-> "none", bin_num |-> NoBin, giveaway_num |-> 0]

\* no BidderManager is constructed in the run
NoBidderManager ==
  /\ bin_assignments = << >>
  /\ bidders_table = << >>
  /\ bin_counter = 0
  /\ giveaway_counter = 0
  /\ bidders = << >>
  /\ last_call = NoCall


(* ----------------------- MailingListManager ---------------------------- *)
\* variant: the relaxed key (full_name, username)
KeyMatches_Relaxed(row, entry) ==
  /\ row.full_name = entry.full_name
  /\ row.username = entry.username

\* WHERE full_name = ? AND address_line_1 = ? AND city = ? AND state = ?
\* AND zip_code = ?
KeyMatches(row, entry) ==
  /\ row.full_name = entry.full_name
  /\ row.address_line_1 = entry.address_line_1
  /\ row.city = entry.city
  /\ row.state = entry.state
  /\ row.zip_code = entry.zip_code

HasMatch(ml, entry) == \E i \in DOMAIN ml : KeyMatches(ml[i], entry)

\* The INSERT names no num_orders column: the column default applies.
NumOrdersDefault == 1

\* INSERT INTO mailing_list (...) VALUES (..., 0); id is AUTOINCREMENT and
\* no row is deleted during a run.
NewRow(ml, entry) ==
  [id |-> Len(ml) + 1,
   full_name |-> entry.full_name,
   username |-> entry.username,
   email |-> entry.email,
   address_line_1 |-> entry.address_line_1,
   address_line_2 |-> entry.address_line_2,
   city |-> entry.city,
   state |-> entry.state,
   zip_code |-> entry.zip_code,
   order_date |-> entry.order_date,
   order_id |-> entry.order_id,
   num_orders |-> NumOrdersDefault,
   spent |-> entry.spent,
   checked |-> 0]

\* variant: a match overwrites the username and address line 2
OnDuplicate_Overwrite(ml, entry) ==
  [i \in DOMAIN ml |->
     IF /\ ml[i].full_name = entry.full_name
        /\ ml[i].address_line_1 = entry.address_line_1
        /\ ml[i].city = entry.city
        /\ ml[i].state = entry.state
        /\ ml[i].zip_code = entry.zip_code
     THEN [ml[i] EXCEPT !.username = entry.username,
                        !.address_line_2 = entry.address_line_2]
     ELSE ml[i]]

\* if cursor.fetchone(): print("[INFO] Duplicate mailing entry skipped ..")
OnDuplicate(ml, entry) == ml

add_or_update_entry(ml, entry) ==
  IF HasMatch(ml, entry)
  THEN OnDuplicate(ml, entry)
  ELSE Append(ml, NewRow(ml, entry))

(* ------------- annotate_whatnot_pdf_with_bins_and_firstname ------------ *)
\* current_address_data = None
NoCurrentAddress ==
  [full_name |-> "", username |-> "", email |-> "", address_line_1 |-> "",
   address_line_2 |-> "", city |-> "", state |-> "", zip_code |-> ""]

\* is_new_label = is_pickup or is_packing_slip
IsNewLabel(p) == p.is_pickup \/ p.is_packing_slip

\* if current_buyer and current_address_data:
Pending(buyer, addr) == Truthy(buyer) /\ addr # NoCurrentAddress

\* variant: no saved_usernames test
NotYetSaved_Always(buyer, saved) == TRUE

\* if current_buyer not in saved_usernames:
NotYetSaved(buyer, saved) == buyer \notin saved

\* mailing_entry = {**current_address_data, "spent": .., "order_date": ..,
\*                  "order_id": ..}
MailingEntry(addr, total, idx) ==
  [full_name |-> addr.full_name,
   username |-> addr.username,
   email |-> addr.email,
   address_line_1 |-> addr.address_line_1,
   address_line_2 |-> addr.address_line_2,
   city |-> addr.city,
   state |-> addr.state,
   zip_code |-> addr.zip_code,
   spent |-> total,
   order_date |-> Today,
   order_id |-> OrderId(idx)]

\* variant: the packing-slip marker takes precedence over the pickup marker
PickupNote_SlipFirst(p) ==
  IF p.is_packing_slip THEN p.address_data.address_line_2 ELSE "PICK UP"

\* pickup_note = "PICK UP" if is_pickup else address_data.get("address_line_2", "")
PickupNote(p) == IF p.is_pickup THEN "PICK UP" ELSE p.address_data.address_line_2

\* current_address_data = {...} built on a parsed boundary page
NewCurrentAddress(p, buyer) ==
  [full_name |-> p.address_data.full_name,
   username |-> buyer,
   email |-> "",
   address_line_1 |-> p.address_data.address_line_1,
   address_line_2 |-> PickupNote(p),
   city |-> p.address_data.city,
   state |-> p.address_data.state,
   zip_code |-> p.address_data.zip_code]

\* current_spent_total = spent          (parsed boundary page)
RestartTotal(total, amount) == amount

\* variant: the continuation amount overwrites the running total
AccumulateTotal_Overwrite(total, amount) == amount

\* current_spent_total += spent         (continuation page)
AccumulateTotal(total, amount) == total + amount

\* current_spent_total = 0.0 after the flush block
ResetTotal(total) == 0

\* bin_map.get(current_buyer)
BinOf(bm, buyer) == IF buyer \in DOMAIN bm THEN bm[buyer] ELSE NoBin

\* variant: every page is stamped
DrawOverlay_Always(p) == TRUE

\* variant: only the packing-slip marker draws an overlay
DrawOverlay_SlipOnly(p) == p.is_packing_slip

\* draw_overlay = is_new_label
DrawOverlay(p) == IsNewLabel(p)

NoOverlay == [kind |-> "none", bin |-> NoBin, first_name |-> None]

\* variant: the first name is stamped whenever one was extracted
Overlay_AnyFirstName(bin_no, is_pickup, first) ==
  IF bin_no # NoBin
  THEN [kind |-> "bin", bin |-> bin_no,
        first_name |-> IF Truthy(first) THEN first ELSE None]
  ELSE [kind |-> "fallback", bin |-> NoBin, first_name |-> None]

\* the canvas drawn for a page: bin stamp (with the first name on pickup
\* pages) or the "Givvy or Flash Sale?" fallback
Overlay(bin_no, is_pickup, first) ==
  IF bin_no # NoBin
  THEN [kind |-> "bin", bin |-> bin_no,
        first_name |-> IF is_pickup /\ Truthy(first) THEN first ELSE None]
  ELSE [kind |-> "fallback", bin |-> NoBin, first_name |-> None]

\* variant: the reason is always "unknown"
SkipReason_Unknown(buyer) == "unknown"

\* current_buyer or "unknown"
SkipReason(buyer) == IF Truthy(buyer) THEN buyer ELSE "unknown"

\* pdf_writer.add_page(original_page), the page being page i of the input
\* with overlay o merged onto it
AddPage(out, i, o) == Append(out, [src |-> i, overlay |-> o])

\* variant: `continue` without add_page
AddUnstampedPage_Dropped(out, i) == out

\* pdf_writer.add_page(original_page) before `continue`
AddUnstampedPage(out, i) == AddPage(out, i, NoOverlay)

Init ==
  /\ pages \in Documents
  /\ bin_map \in BinTables
  /\ pc = "loop"
  /\ page_index = 0
  /\ current_buyer = None
  /\ current_first_name = None
  /\ current_spent_total = 0
  /\ current_address_data = NoCurrentAddress
  /\ saved_usernames = {}
  /\ skipped_pages = << >>
  /\ out_pages = << >>
  /\ mailing_list = << >>
  /\ calls = << >>
  /\ output_written = FALSE
  /\ page_text = << >>
  /\ bin_rows = << >>
  /\ text_pc = "off"
  /\ identity = [username |-> << >>, first_name |-> << >>]
  /\ parsed_address = << >>
  /\ bin_number = NoBin
  /\ NoBidderManager

\* the page the loop is at (page_index is 0-based)
CurPage == pages[page_index + 1]

InLoop == pc = "loop" /\ page_index < Len(pages)

\* for ... in enumerate(zip(...)): advance, or leave the loop
Advance ==
  /\ page_index' = page_index + 1
  /\ pc' = IF page_index + 1 < Len(pages) THEN "loop" ELSE "eof"

\* lines 138-150: the flush block at the top of a boundary page
FlushCalls ==
  IF Pending(current_buyer, current_address_data)
     /\ NotYetSaved(current_buyer, saved_usernames)
  THEN <<MailingEntry(current_address_data, current_spent_total, page_index)>>
  ELSE << >>

FlushedList ==
  IF FlushCalls # << >>
  THEN add_or_update_entry(mailing_list, FlushCalls[1])
  ELSE mailing_list

FlushedSaved ==
  IF FlushCalls # << >>
  THEN saved_usernames \cup {current_buyer}
  ELSE saved_usernames

FlushedTotal ==
  IF Pending(current_buyer, current_address_data)
  THEN ResetTotal(current_spent_total)
  ELSE current_spent_total

FlushAtBoundary ==
  /\ mailing_list' = FlushedList
  /\ calls' = calls \o FlushCalls
  /\ saved_usernames' = FlushedSaved

\* variant: no `continue`, the page falls through to the stamp of the
\* current buyer
BoundaryNoUsername_FallsThrough ==
  /\ InLoop
  /\ IsNewLabel(CurPage)
  /\ ~Truthy(CurPage.username)
  /\ FlushAtBoundary
  /\ current_spent_total' = FlushedTotal
  /\ skipped_pages' = Append(skipped_pages, <<page_index, "no_username">>)
  /\ out_pages' =
       AddPage(out_pages, page_index,
               Overlay(BinOf(bin_map, current_buyer), CurPage.is_pickup,
                       current_first_name))
  /\ Advance
  /\ UNCHANGED <<pages, bin_map, current_buyer, current_first_name,
                 current_address_data, output_written>>
  /\ UNCHANGED textVars
  /\ UNCHANGED bidderVars

\* a boundary page without a username: flush, record, copy, continue
BoundaryNoUsername ==
  /\ InLoop
  /\ IsNewLabel(CurPage)
  /\ ~Truthy(CurPage.username)
  /\ FlushAtBoundary
  /\ current_spent_total' = FlushedTotal
  /\ skipped_pages' = Append(skipped_pages, <<page_index, "no_username">>)
  /\ out_pages' = AddUnstampedPage(out_pages, page_index)
  /\ Advance
  /\ UNCHANGED <<pages, bin_map, current_buyer, current_first_name,
                 current_address_data, output_written>>
  /\ UNCHANGED textVars
  /\ UNCHANGED bidderVars

\* variant: no flush block ahead of the failed page
BoundaryNoAddress_NoFlush ==
  /\ InLoop
  /\ IsNewLabel(CurPage)
  /\ Truthy(CurPage.username)
  /\ CurPage.address_data = NoAddress
  /\ skipped_pages' = Append(skipped_pages, <<page_index, "no_address_data">>)
  /\ out_pages' = AddUnstampedPage(out_pages, page_index)
  /\ Advance
  /\ UNCHANGED <<pages, bin_map, current_buyer, current_first_name,
                 current_address_data, current_spent_total, saved_usernames,
                 mailing_list, calls, output_written>>
  /\ UNCHANGED textVars
  /\ UNCHANGED bidderVars

\* variant: current_buyer is set before the address is parsed
BoundaryNoAddress_SetsBuyer ==
  /\ InLoop
  /\ IsNewLabel(CurPage)
  /\ Truthy(CurPage.username)
  /\ CurPage.address_data = NoAddress
  /\ FlushAtBoundary
  /\ current_buyer' = CurPage.username
  /\ current_spent_total' = FlushedTotal
  /\ skipped_pages' = Append(skipped_pages, <<page_index, "no_address_data">>)
  /\ out_pages' = AddUnstampedPage(out_pages, page_index)
  /\ Advance
  /\ UNCHANGED <<pages, bin_map, current_first_name,
                 current_address_data, output_written>>
  /\ UNCHANGED textVars
  /\ UNCHANGED bidderVars

\* a boundary page with a username whose address does not parse
BoundaryNoAddress ==
  /\ InLoop
  /\ IsNewLabel(CurPage)
  /\ Truthy(CurPage.username)
  /\ CurPage.address_data = NoAddress
  /\ FlushAtBoundary
  /\ current_spent_total' = FlushedTotal
  /\ skipped_pages' = Append(skipped_pages, <<page_index, "no_address_data">>)
  /\ out_pages' = AddUnstampedPage(out_pages, page_index)
  /\ Advance
  /\ UNCHANGED <<pages, bin_map, current_buyer, current_first_name,
                 current_address_data, output_written>>
  /\ UNCHANGED textVars
  /\ UNCHANGED bidderVars

\* lines 185-220 for page p once the current buyer and first name are set:
\* the overlay (if any), the skip record of a bin-less page, add_page
StampAndAdd(p, buyer, first) ==
  LET bin_no == BinOf(bin_map, buyer)
  IN  /\ skipped_pages' =
           IF DrawOverlay(p) /\ bin_no = NoBin
           THEN Append(skipped_pages, <<page_index, SkipReason(buyer)>>)
           ELSE skipped_pages
      /\ out_pages' =
           AddPage(out_pages, page_index,
                   IF DrawOverlay(p)
                   THEN Overlay(bin_no, p.is_pickup, first)
                   ELSE NoOverlay)

\* a boundary page that is identified and parsed: flush, start the order,
\* stamp, add
BoundaryStart ==
  /\ InLoop
  /\ IsNewLabel(CurPage)
  /\ Truthy(CurPage.username)
  /\ CurPage.address_data # NoAddress
  /\ FlushAtBoundary
  /\ current_buyer' = CurPage.username
  /\ current_first_name' = CurPage.first_name
  /\ current_address_data' = NewCurrentAddress(CurPage, CurPage.username)
  /\ current_spent_total' = RestartTotal(FlushedTotal, CurPage.spent)
  /\ StampAndAdd(CurPage, CurPage.username, CurPage.first_name)
  /\ Advance
  /\ UNCHANGED <<pages, bin_map, output_written>>
  /\ UNCHANGED textVars
  /\ UNCHANGED bidderVars

\* a page without a marker
Continuation ==
  /\ InLoop
  /\ ~IsNewLabel(CurPage)
  /\ current_spent_total' =
       IF Truthy(current_buyer)
       THEN AccumulateTotal(current_spent_total, CurPage.spent)
       ELSE current_spent_total
  /\ StampAndAdd(CurPage, current_buyer, current_first_name)
  /\ Advance
  /\ UNCHANGED <<pages, bin_map, current_buyer, current_first_name,
                 current_address_data, saved_usernames, mailing_list, calls,
                 output_written>>
  /\ UNCHANGED textVars
  /\ UNCHANGED bidderVars

\* variant: the output file is opened for writing while the pages are read
PageError_PartialOutput ==
  /\ InLoop
  /\ pc' = "failed"
  /\ output_written' = TRUE
  /\ UNCHANGED <<pages, bin_map, page_index, current_buyer,
                 current_first_name, current_spent_total,
                 current_address_data, saved_usernames, skipped_pages,
                 out_pages, mailing_list, calls>>
  /\ UNCHANGED textVars
  /\ UNCHANGED bidderVars

\* plumber_page.extract_text() raises on the page the loop is at: the
\* exception leaves the function (the caller reports "Failed to annotate")
PageError ==
  /\ InLoop
  /\ pc' = "failed"
  /\ UNCHANGED <<pages, bin_map, page_index, current_buyer,
                 current_first_name, current_spent_total,
                 current_address_data, saved_usernames, skipped_pages,
                 out_pages, mailing_list, calls, output_written>>
  /\ UNCHANGED textVars
  /\ UNCHANGED bidderVars

\* the document has no page: the loop body never runs
EmptyDocument ==
  /\ pc = "loop"
  /\ Len(pages) = 0
  /\ pc' = "eof"
  /\ UNCHANGED <<pages, bin_map, page_index, current_buyer,
                 current_first_name, current_spent_total,
                 current_address_data, saved_usernames, skipped_pages,
                 out_pages, mailing_list, calls, output_written>>
  /\ UNCHANGED textVars
  /\ UNCHANGED bidderVars

\* variant: no flush after the last page
EofCalls_Missing == << >>

\* lines 222-230: the flush after the last page
EofCalls ==
  IF Pending(current_buyer, current_address_data)
     /\ NotYetSaved(current_buyer, saved_usernames)
  THEN <<MailingEntry(current_address_data, current_spent_total, Len(pages))>>
  ELSE << >>

FinalFlush ==
  /\ pc = "eof"
  /\ calls' = calls \o EofCalls
  /\ mailing_list' =
       IF EofCalls # << >>
       THEN add_or_update_entry(mailing_list, EofCalls[1])
       ELSE mailing_list
  /\ pc' = "write"
  /\ UNCHANGED <<pages, bin_map, page_index, current_buyer,
                 current_first_name, current_spent_total,
                 current_address_data, saved_usernames, skipped_pages,
                 out_pages, output_written>>
  /\ UNCHANGED textVars
  /\ UNCHANGED bidderVars

\* with open(output_pdf_path, "wb") as out_f: pdf_writer.write(out_f);
\* return skipped_pages
WriteOutput ==
  /\ pc = "write"
  /\ output_written' = TRUE
  /\ pc' = "done"
  /\ UNCHANGED <<pages, bin_map, page_index, current_buyer,
                 current_first_name, current_spent_total,
                 current_address_data, saved_usernames, skipped_pages,
                 out_pages, mailing_list, calls>>
  /\ UNCHANGED textVars
  /\ UNCHANGED bidderVars

Next ==
  \/ EmptyDocument
  \/ BoundaryNoUsername
  \/ BoundaryNoAddress
  \/ BoundaryStart
  \/ Continuation
  \/ PageError
  \/ FinalFlush
  \/ WriteOutput

Spec == Init /\ [][Next]_vars

(* ---------------- the document, read independently of the run --------- *)
PageIndices == 0 .. (Len(pages) - 1)

PageAt(k) == pages[k + 1]

IsBoundaryPage(k) == PageAt(k).is_pickup \/ PageAt(k).is_packing_slip

\* a boundary page that is identified and whose address parses
IsOrderStart(k) ==
  /\ IsBoundaryPage(k)
  /\ PageAt(k).username \notin {None, ""}
  /\ PageAt(k).address_data # NoAddress

\* index of the first boundary page after page k, or the page count
NextBoundary(k) ==
  LET later == { j \in PageIndices : j > k /\ IsBoundaryPage(j) }
  IN  IF later = {} THEN Len(pages)
      ELSE CHOOSE j \in later : \A m \in later : j <= m

RECURSIVE SumAmounts(_, _)
SumAmounts(from, to) ==
  IF from >= to THEN 0 ELSE PageAt(from).spent + SumAmounts(from + 1, to)

\* amount of the order started on page k: its own page and its
\* continuation pages
OrderAmount(k) == SumAmounts(k, NextBoundary(k))

\* the calls that flush the order started on page k
CallsOfOrder(k) ==
  { n \in DOMAIN calls :
      /\ calls[n].order_id = <<"PG", NextBoundary(k)>>
      /\ calls[n].username = PageAt(k).username }

CallsOfUser(u) == { n \in DOMAIN calls : calls[n].username = u }

StartsOfUser(u) == { k \in PageIndices : IsOrderStart(k) /\ PageAt(k).username = u }

SkipsOfPage(k) == { n \in DOMAIN skipped_pages : skipped_pages[n][1] = k }

Finished == pc \in {"write", "done"}

(* ------------------------------ claims --------------------------------- *)

\* C1: a run that completes has added exactly one output page per input
\* page, in input order.
C1_OnePagePerInputPage ==
  pc \notin {"loop", "failed"} =>
    /\ Len(out_pages) = Len(pages)
    /\ \A k \in PageIndices : out_pages[k + 1].src = k

C1_Witness ==
  /\ pc = "done"
  /\ Len(pages) = 3
  /\ \E a, b \in DOMAIN skipped_pages :
       /\ skipped_pages[a][2] = "no_username"
       /\ skipped_pages[b][2] = "no_address_data"
  /\ \E k \in PageIndices : ~IsBoundaryPage(k)

\* C2: the spent handed to the upsert for an order is the amount of its
\* boundary page plus the amounts of its continuation pages, and nothing
\* of the pages before its boundary page.
C2_SpentIsOrderAmount ==
  \A k \in PageIndices :
    IsOrderStart(k) =>
      \A n \in CallsOfOrder(k) : calls[n].spent = OrderAmount(k)

C2_Witness ==
  /\ pc = "done"
  /\ Len(pages) = 3
  /\ IsOrderStart(0) /\ ~IsBoundaryPage(1) /\ IsOrderStart(2)
  /\ Len(calls) = 2
  /\ calls[1].spent = PageAt(0).spent + PageAt(1).spent
  /\ calls[2].spent = PageAt(2).spent

\* C3: no username causes more than one add_or_update_entry call in a
\* run, and a buyer with exactly one parsed boundary page causes exactly
\* one call by the end of the run.
C3_OneCallPerBuyer ==
  /\ \A u \in Users : Cardinality(CallsOfUser(u)) <= 1
  /\ Finished =>
       \A u \in Users :
         Cardinality(StartsOfUser(u)) = 1 => Cardinality(CallsOfUser(u)) = 1

\* the buyer was flushed at a failed boundary page and the end-of-document
\* flush ran afterwards
C3_Witness ==
  /\ pc = "done"
  /\ Len(pages) >= 2
  /\ IsOrderStart(0)
  /\ IsBoundaryPage(1) /\ ~IsOrderStart(1)
  /\ \A k \in PageIndices : k >= 1 => ~IsOrderStart(k)
  /\ Len(calls) = 1

\* the flush point of the order started on page k has been passed
FlushPointPassed(k) ==
  IF NextBoundary(k) < Len(pages)
  THEN page_index > NextBoundary(k)
  ELSE Finished

IsFirstOrderOfBuyer(k) ==
  \A j \in PageIndices :
    (j < k /\ IsOrderStart(j)) => PageAt(j).username # PageAt(k).username

\* C4 as stated: when the run has finished, every order started on a
\* boundary page has been flushed through add_or_update_entry.
C4_EveryOrderFlushed ==
  pc = "done" =>
    \A k \in PageIndices : IsOrderStart(k) => CallsOfOrder(k) # {}

\* C4 amended: the first order of each buyer is flushed at the next boundary
\* page or at the end of the document, not before; a later order of a
\* buyer already flushed in the run is never flushed.
C4_FirstOrderOfBuyerFlushed ==
  \A k \in PageIndices :
    IsOrderStart(k) =>
      (CallsOfOrder(k) # {} <=> (FlushPointPassed(k) /\ IsFirstOrderOfBuyer(k)))

C4_Witness ==
  /\ pc = "done"
  /\ Len(pages) = 3
  /\ IsOrderStart(0) /\ IsOrderStart(1) /\ IsOrderStart(2)
  /\ PageAt(0).username = PageAt(2).username
  /\ PageAt(0).username # PageAt(1).username
  /\ Len(calls) = 2

C6_SkipsBoundedByBoundaries ==
  /\ \A n \in DOMAIN skipped_pages :
       /\ skipped_pages[n][1] \in PageIndices
       /\ IsBoundaryPage(skipped_pages[n][1])
  /\ \A k \in PageIndices : Cardinality(SkipsOfPage(k)) <= 1
  /\ Len(skipped_pages) <=
       Cardinality({ k \in PageIndices : IsBoundaryPage(k) })

\* a bin-less buyer's order with a continuation page, and a failed boundary
C6_Witness ==
  /\ pc = "done"
  /\ Len(pages) = 3
  /\ Len(skipped_pages) = 2
  /\ IsOrderStart(0) /\ PageAt(0).username \notin DOMAIN bin_map
  /\ \E k \in PageIndices : ~IsBoundaryPage(k)

\* the dedup key of a row or entry, read off its fields
KeyOf(r) == <<r.full_name, r.address_line_1, r.city, r.state, r.zip_code>>

\* this step hands an entry to add_or_update_entry
CallMade == Len(calls') = Len(calls) + 1

LastCall == calls'[Len(calls')]

RowsWithKey(ml, e) == { i \in DOMAIN ml : KeyOf(ml[i]) = KeyOf(e) }

\* C7 as stated: an upsert whose key matches an existing row increments
\* that row's num_orders, adds the entry's spent to its spent, and inserts
\* no row.
C7_MatchAccumulates ==
  [][ (CallMade /\ RowsWithKey(mailing_list, LastCall) # {}) =>
        /\ Len(mailing_list') = Len(mailing_list)
        /\ \A i \in RowsWithKey(mailing_list, LastCall) :
             /\ mailing_list'[i].num_orders = mailing_list[i].num_orders + 1
             /\ mailing_list'[i].spent = mailing_list[i].spent + LastCall.spent
    ]_vars

\* C8: the store never holds two rows with the same key, and a row
\* inserted for an unmatched key has num_orders = 1.
C8_OneRowPerKey ==
  [][ /\ \A i, j \in DOMAIN mailing_list' :
           KeyOf(mailing_list'[i]) = KeyOf(mailing_list'[j]) => i = j
      /\ (CallMade /\ RowsWithKey(mailing_list, LastCall) = {}) =>
           /\ Len(mailing_list') = Len(mailing_list) + 1
           /\ KeyOf(mailing_list'[Len(mailing_list')]) = KeyOf(LastCall)
           /\ mailing_list'[Len(mailing_list')].num_orders = 1
    ]_vars

\* two buyers with the same name and address: the second upsert matches
C8_Witness ==
  /\ pc = "done"
  /\ Len(calls) = 2
  /\ KeyOf(calls[1]) = KeyOf(calls[2])
  /\ Len(mailing_list) = 1
  /\ mailing_list[1].num_orders = 1

IdentityOf(r) ==
  <<r.full_name, r.username, r.email, r.address_line_1, r.address_line_2,
    r.city, r.state, r.zip_code>>

\* C9: an upsert whose key matches an existing row leaves every row's
\* full_name, username, email and address fields as they were.
C9_MatchKeepsIdentity ==
  [][ (CallMade /\ RowsWithKey(mailing_list, LastCall) # {}) =>
        \A i \in DOMAIN mailing_list :
          /\ i \in DOMAIN mailing_list'
          /\ IdentityOf(mailing_list'[i]) = IdentityOf(mailing_list[i])
    ]_vars

\* the matching entry carried another username and another address line 2
C9_Witness ==
  /\ Len(calls) = 2
  /\ KeyOf(calls[1]) = KeyOf(calls[2])
  /\ calls[1].username # calls[2].username
  /\ calls[1].address_line_2 # calls[2].address_line_2
  /\ Len(mailing_list) = 1
  /\ mailing_list[1].username = calls[1].username
  /\ mailing_list[1].address_line_2 = calls[1].address_line_2

\* C10: a parsed boundary page whose buyer has no row in the bin table is
\* stamped with the fallback marker and gets exactly one SkippedPage
\* record, (page_index, username).
C10_BinlessBuyerFallback ==
  \A n \in DOMAIN out_pages :
    LET k == out_pages[n].src
    IN  (IsOrderStart(k) /\ PageAt(k).username \notin DOMAIN bin_map) =>
          /\ out_pages[n].overlay.kind = "fallback"
          /\ Cardinality(SkipsOfPage(k)) = 1
          /\ \A m \in SkipsOfPage(k) :
               skipped_pages[m] = <<k, PageAt(k).username>>

\* the bin-less buyer follows a buyer who has a bin
C10_Witness ==
  /\ pc = "done"
  /\ Len(pages) >= 2
  /\ IsOrderStart(0) /\ PageAt(0).username \in DOMAIN bin_map
  /\ IsOrderStart(1) /\ PageAt(1).username \notin DOMAIN bin_map
  /\ out_pages[2].overlay.kind = "fallback"

\* username of the last parsed boundary page before page k, or None
BuyerBefore(k) ==
  LET earlier == { j \in PageIndices : j < k /\ IsOrderStart(j) }
  IN  IF earlier = {} THEN None
      ELSE PageAt(CHOOSE j \in earlier : \A m \in earlier : m <= j).username

\* page k has been processed and no later boundary page has been yet
InRunOf(k) == k < page_index /\ page_index <= NextBoundary(k)

\* page k went to the output as it came, without overlay
CopiedUnstamped(k) ==
  \E n \in DOMAIN out_pages :
    n = k + 1 /\ out_pages[n] = [src |-> k, overlay |-> NoOverlay]

\* page k has exactly the one skip record (k, reason)
OnlySkip(k, reason) ==
  /\ Cardinality(SkipsOfPage(k)) = 1
  /\ \A n \in SkipsOfPage(k) : skipped_pages[n] = <<k, reason>>

\* no entry is handed over at the flush point that follows page k
NoCallAtNextFlush(k) ==
  \A n \in DOMAIN calls : calls[n].order_id # <<"PG", NextBoundary(k)>>

IsNoUsernamePage(k) ==
  IsBoundaryPage(k) /\ PageAt(k).username \in {None, ""}

IsNoAddressPage(k) ==
  /\ IsBoundaryPage(k)
  /\ PageAt(k).username \notin {None, ""}
  /\ PageAt(k).address_data = NoAddress

\* C11: a boundary page without a username is recorded as
\* (page_index, "no_username"), is copied to the output, starts no order
\* (the current buyer stays the one of the last parsed boundary page), and
\* the run goes on to the later pages.
C11_NoUsernameRecovered ==
  /\ \A k \in PageIndices :
       (k < page_index /\ IsNoUsernamePage(k)) =>
         /\ OnlySkip(k, "no_username")
         /\ CopiedUnstamped(k)
         /\ NoCallAtNextFlush(k)
         /\ InRunOf(k) => current_buyer = BuyerBefore(k)
  /\ Finished => Len(out_pages) = Len(pages)

C11_Witness ==
  /\ pc = "done"
  /\ Len(pages) = 3
  /\ IsOrderStart(0) /\ IsNoUsernamePage(1) /\ IsOrderStart(2)
  /\ Len(out_pages) = 3
  /\ Len(calls) = 2

\* C12: a boundary page whose buyer is identified but whose address does
\* not parse is recorded as (page_index, "no_address_data"), starts no
\* order, and no entry is produced for it at the next boundary page or at
\* the end of the document.
C12_NoAddressStartsNoOrder ==
  \A k \in PageIndices :
    (k < page_index /\ IsNoAddressPage(k)) =>
      /\ OnlySkip(k, "no_address_data")
      /\ CopiedUnstamped(k)
      /\ NoCallAtNextFlush(k)
      /\ \A n \in DOMAIN calls :
           calls[n].username = PageAt(k).username =>
             \E j \in PageIndices :
               /\ IsOrderStart(j)
               /\ PageAt(j).username = PageAt(k).username
               /\ calls[n].order_id = <<"PG", NextBoundary(j)>>
      /\ InRunOf(k) => current_buyer = BuyerBefore(k)

\* another buyer's order precedes the failed page, and the document ends
\* after it
C12_Witness ==
  /\ pc = "done"
  /\ Len(pages) = 3
  /\ IsOrderStart(0) /\ IsNoAddressPage(1) /\ ~IsBoundaryPage(2)
  /\ PageAt(0).username # PageAt(1).username
  /\ Len(calls) = 1
  /\ calls[1].username = PageAt(0).username

\* page k was handled as a boundary page: it got an overlay or a skip record
TreatedAsBoundary(k) ==
  \/ SkipsOfPage(k) # {}
  \/ \E n \in DOMAIN out_pages :
       out_pages[n].src = k /\ out_pages[n].overlay.kind # "none"

\* C18: a page is a boundary page exactly when it carries a pickup marker
\* or the packing-slip marker, and a page with both is handled as pickup:
\* its mailing entry has address_line_2 = "PICK UP".
C18_PickupPrecedence ==
  \A k \in PageIndices :
    k < page_index =>
      /\ TreatedAsBoundary(k) <=> (PageAt(k).is_pickup \/ PageAt(k).is_packing_slip)
      /\ IsOrderStart(k) =>
           \A n \in CallsOfOrder(k) :
             calls[n].address_line_2 =
               (IF PageAt(k).is_pickup THEN "PICK UP"
                ELSE PageAt(k).address_data.address_line_2)

C18_Witness ==
  /\ pc = "done"
  /\ Len(pages) >= 1
  /\ IsOrderStart(0)
  /\ PageAt(0).is_pickup /\ PageAt(0).is_packing_slip
  /\ PageAt(0).username \in DOMAIN bin_map
  /\ Len(calls) >= 1
  /\ calls[1].address_line_2 = "PICK UP"
  /\ out_pages[1].overlay.first_name = PageAt(0).first_name

\* C19: a first name is stamped only on a pickup page whose buyer has a
\* first name and a bin; a page without a pickup marker never carries one.
C19_FirstNameOnlyOnPickup ==
  \A n \in DOMAIN out_pages :
    LET k == out_pages[n].src
        o == out_pages[n].overlay
    IN  /\ o.first_name # None =>
             /\ PageAt(k).is_pickup
             /\ PageAt(k).first_name \notin {None, ""}
             /\ o.first_name = PageAt(k).first_name
             /\ PageAt(k).username \in DOMAIN bin_map
             /\ o.kind = "bin"
        /\ ~PageAt(k).is_pickup => o.first_name = None

\* a shipping page whose identity carries a first name, with a bin
C19_Witness ==
  /\ pc = "done"
  /\ \E n \in DOMAIN out_pages :
       LET k == out_pages[n].src
       IN  /\ ~PageAt(k).is_pickup
           /\ PageAt(k).first_name \notin {None, ""}
           /\ out_pages[n].overlay.kind = "bin"
  /\ \E n \in DOMAIN out_pages : out_pages[n].overlay.first_name # None

\* C20: the output file is written once, after the last page and the final
\* flush; a run that fails at a page has written no output.
C20_OutputWrittenOnceAtEnd ==
  /\ output_written <=> pc = "done"
  /\ pc = "failed" => ~output_written
  /\ output_written =>
       /\ page_index = Len(pages)
       /\ Len(out_pages) = Len(pages)
       /\ \A k \in PageIndices :
            (IsOrderStart(k) /\ IsFirstOrderOfBuyer(k)) => CallsOfOrder(k) # {}

\* the run failed after it had stamped a page and flushed an order
C20_Witness ==
  /\ pc = "failed"
  /\ Len(out_pages) >= 2
  /\ Len(calls) >= 1
  /\ ~output_written

(***************************************************************************)
(* The text functions.  A string is a sequence of one-character strings,   *)
(* a page text the sequence of its lines.                                  *)
(***************************************************************************)
MaxLines == 3

UpperLetters == <<"A", "B", "C", "D", "E", "F", "G", "H", "I", "J", "K", "L", "M", "N", "O", "P", "Q", "R", "S", "T", "U", "V", "W", "X", "Y", "Z">>
LowerLetters == <<"a", "b", "c", "d", "e", "f", "g", "h", "i", "j", "k", "l", "m", "n", "o", "p", "q", "r", "s", "t", "u", "v", "w", "x", "y", "z">>
Digits == {"0", "1", "2", "3", "4", "5", "6", "7", "8", "9"}

IsUpper(c) == \E i \in DOMAIN UpperLetters : UpperLetters[i] = c
IsLower(c) == \E i \in DOMAIN LowerLetters : LowerLetters[i] = c
IsLetter(c) == IsUpper(c) \/ IsLower(c)
IsDigit(c) == c \in Digits
IsSpace(c) == c = " "

\* str.lower() / str.upper() on one character
LowerChar(c) ==
  IF IsUpper(c)
  THEN LowerLetters[CHOOSE i \in DOMAIN UpperLetters : UpperLetters[i] = c]
  ELSE c
UpperChar(c) ==
  IF IsLower(c)
  THEN UpperLetters[CHOOSE i \in DOMAIN LowerLetters : LowerLetters[i] = c]
  ELSE c

lower(s) == [i \in DOMAIN s |-> LowerChar(s[i])]
upper(s) == [i \in DOMAIN s |-> UpperChar(s[i])]

\* str.title(): a letter that follows a non-letter is upper-cased, every
\* other letter lower-cased
title(s) ==
  [i \in DOMAIN s |->
     IF i = 1 \/ ~IsLetter(s[i - 1]) THEN UpperChar(s[i]) ELSE LowerChar(s[i])]

\* the first position at or after i, and the last one at or before i, that
\* holds no white space
RECURSIVE FirstSolid(_, _)
FirstSolid(s, i) ==
  IF i <= Len(s) /\ IsSpace(s[i]) THEN FirstSolid(s, i + 1) ELSE i
RECURSIVE LastSolid(_, _)
LastSolid(s, i) ==
  IF i >= 1 /\ IsSpace(s[i]) THEN LastSolid(s, i - 1) ELSE i

\* str.strip()
strip(s) == SubSeq(s, FirstSolid(s, 1), LastSolid(s, Len(s)))

\* str.startswith(prefix)
startswith(s, prefix) ==
  Len(s) >= Len(prefix) /\ SubSeq(s, 1, Len(prefix)) = prefix

\* `sub in s`
contains(s, sub) ==
  \E i \in 1 .. (Len(s) - Len(sub) + 1) : SubSeq(s, i, i + Len(sub) - 1) = sub

\* str.isupper(): some cased character, and no lower-case one
isupper(s) ==
  /\ \E i \in DOMAIN s : IsUpper(s[i])
  /\ \A i \in DOMAIN s : ~IsLower(s[i])

\* len(s.split()): the positions where a word starts
WordCount(s) ==
  Cardinality({ i \in DOMAIN s :
                  ~IsSpace(s[i]) /\ (i = 1 \/ IsSpace(s[i - 1])) })

\* " ".join(lines)
RECURSIVE JoinLines(_)
JoinLines(ls) ==
  IF ls = << >> THEN << >>
  ELSE IF Len(ls) = 1 THEN ls[1]
  ELSE ls[1] \o <<" ">> \o JoinLines(Tail(ls))

\* the regular expression \([^)]+\) matches at position q of s
ParenAt(s, q) ==
  /\ q \in DOMAIN s
  /\ s[q] = "("
  /\ q + 1 \in DOMAIN s
  /\ s[q + 1] # ")"
  /\ \E j \in DOMAIN s : j > q /\ s[j] = ")"

\* position of the ")" that closes the group opened at q
CloseOf(s, q) ==
  CHOOSE j \in DOMAIN s :
    /\ j > q /\ s[j] = ")"
    /\ \A m \in DOMAIN s : (m > q /\ s[m] = ")") => j <= m

\* leftmost position >= from where \([^)]+\) matches, or 0
FirstParen(s, from) ==
  LET qs == { q \in DOMAIN s : q >= from /\ ParenAt(s, q) }
  IN  IF qs = {} THEN 0 ELSE CHOOSE q \in qs : \A r \in qs : q <= r

\* what is between the parentheses of the group opened at q
ParenContent(s, q) == SubSeq(s, q + 1, CloseOf(s, q) - 1)

\* start of the run of characters satisfying the test that ends at
\* position e (e + 1 when s[e] does not satisfy it)
RECURSIVE SpaceRunStart(_, _)
SpaceRunStart(s, e) ==
  IF e >= 1 /\ IsSpace(s[e]) THEN SpaceRunStart(s, e - 1) ELSE e + 1
RECURSIVE LetterRunStart(_, _)
LetterRunStart(s, e) ==
  IF e >= 1 /\ IsLetter(s[e]) THEN LetterRunStart(s, e - 1) ELSE e + 1

(* ---------------- extract_username_and_pickup_firstname ---------------- *)
\* Python None among the strings of the text functions
NoneText == <<"<None>">>

NoIdentity == [username |-> NoneText, first_name |-> NoneText]

ShipsTo == <<"s", "h", "i", "p", "s", " ", "t", "o", ":">>
PickupTo == <<"p", "i", "c", "k", "u", "p", " ", "t", "o", ":">>
PickupAddress == <<"p", "i", "c", "k", "u", "p", " ", "a", "d", "d", "r", "e", "s", "s", ":">>
NewBuyer == <<"n", "e", "w", " ", "b", "u", "y", "e", "r", "!">>

\* trimmed.startswith("ships to:") or ... "pickup to:" or "pickup address:"
IsMarkerLine(line) ==
  LET trimmed == lower(strip(line))
  IN  \/ startswith(trimmed, ShipsTo)
      \/ startswith(trimmed, PickupTo)
      \/ startswith(trimmed, PickupAddress)

\* group(1) of ([A-Za-z]+\s+[A-Za-z]+)?\s*\(([^)]+)\) when the group
\* \(...\) is at position q of s: the two words that end at the white
\* space before the parenthesis (the leftmost match starts at the first
\* word's first letter), or None
NameBefore(s, q) ==
  LET e  == SpaceRunStart(s, q - 1) - 1
      l2 == LetterRunStart(s, e)
      w  == SpaceRunStart(s, l2 - 1)
      l1 == LetterRunStart(s, w - 1)
  IN  IF l2 <= e /\ w <= l2 - 1 /\ l1 <= w - 1
      THEN SubSeq(s, l1, e)
      ELSE NoneText

\* m.group(1).strip() if m.group(1) else None
FirstNameOf(s, q) == NameBefore(s, q)

\* m.group(2).strip().lower()
UsernameOf(s, q) == lower(strip(ParenContent(s, q)))

\* username != "new buyer!", negated
IsPlaceholder_Never(username) == FALSE
IsPlaceholder(username) == username = NewBuyer

\* for nxt in lines[idx + 1:]: the first line whose match is not the
\* placeholder
RECURSIVE ScanIdentity(_)
ScanIdentity(ls) ==
  IF ls = << >> THEN NoIdentity
  ELSE LET nxt == strip(ls[1])
           q == FirstParen(nxt, 1)
       IN  IF nxt = << >> \/ q = 0 THEN ScanIdentity(Tail(ls))
           ELSE IF ~IsPlaceholder(UsernameOf(nxt, q))
                THEN [username |-> UsernameOf(nxt, q),
                      first_name |-> FirstNameOf(nxt, q)]
                ELSE ScanIdentity(Tail(ls))

extract_username_and_pickup_firstname(text) ==
  LET markers == { i \in DOMAIN text : IsMarkerLine(text[i]) }
  IN  IF markers = {} THEN NoIdentity
      ELSE LET idx == CHOOSE i \in markers : \A j \in markers : i <= j
           IN  ScanIdentity(SubSeq(text, idx + 1, Len(text)))

(* ----------------------- parse_packing_slip_address -------------------- *)
\* return None
NoParsedAddress == << >>

\* lines = [line.strip() for line in page_text.splitlines() if line.strip()]
RECURSIVE NonBlankLines(_)
NonBlankLines(text) ==
  IF text = << >> THEN << >>
  ELSE IF strip(text[1]) = << >> THEN NonBlankLines(Tail(text))
  ELSE <<strip(text[1])>> \o NonBlankLines(Tail(text))

NewBuyerWords == <<"n", "e", "w", " ", "b", "u", "y", "e", "r">>

\* the line is not skipped and re.search(r"(.+?)\s*\(([^)]+)\)", line)
\* matches: a group \(...\) with at least one character before it
IsStartLine(line) ==
  /\ ~contains(lower(line), NewBuyerWords)
  /\ FirstParen(line, 2) # 0

\* match.group(1).strip(): the lazy (.+?) stops before the white space
\* that precedes the parenthesis
FullNameOf(line) ==
  LET q == FirstParen(line, 2)
      w == SpaceRunStart(line, q - 1)
  IN  strip(SubSeq(line, 1, IF w >= 2 THEN w - 1 ELSE 1))

\* re.split(r"\([^)]+\)", address_block, maxsplit=1)[-1].strip()
AfterUsername(block) ==
  LET q == FirstParen(block, 1)
  IN  IF q = 0 THEN strip(block)
      ELSE strip(SubSeq(block, CloseOf(block, q) + 1, Len(block)))

\* the position of the first "." or "," of s at or after from, or
\* Len(s) + 1
NextSeparator(s, from) ==
  LET seps == { i \in from .. Len(s) : s[i] \in {".", ","} }
  IN  IF seps = {} THEN Len(s) + 1
      ELSE CHOOSE i \in seps : \A j \in seps : i <= j

\* [p.strip() for p in re.split(r"[.,]", after_username) if p.strip()],
\* for the text of s from position from on
RECURSIVE SplitParts(_, _)
SplitParts(s, from) ==
  IF from > Len(s) THEN << >>
  ELSE LET sep == NextSeparator(s, from)
           p == strip(SubSeq(s, from, sep - 1))
       IN  (IF p = << >> THEN << >> ELSE <<p>>) \o SplitParts(s, sep + 1)

Parts(after) == SplitParts(after, 1)

\* known_keywords = ("ste", "apt", "unit", "fl", "bldg", "#")
KnownKeywords == { <<"s", "t", "e">>, <<"a", "p", "t">>, <<"u", "n", "i", "t">>, <<"f", "l">>, <<"b", "l", "d", "g">>, <<"#">> }

\* the optional prefix of ^(ste|apt|unit|fl|#)?\s?\d+[a-zA-Z]?$
NumberPrefixes == { << >>, <<"s", "t", "e">>, <<"a", "p", "t">>, <<"u", "n", "i", "t">>, <<"f", "l">>, <<"#">> }

\* \d+[a-zA-Z]?$
IsNumberWithLetter(s) ==
  /\ s # << >>
  /\ IsDigit(s[1])
  /\ \A i \in DOMAIN s : IsDigit(s[i]) \/ (i = Len(s) /\ IsLetter(s[i]))

\* re.match(r"^(ste|apt|unit|fl|#)?\s?\d+[a-zA-Z]?$", second, re.IGNORECASE)
MatchesUnitNumber(second) ==
  \E kw \in NumberPrefixes :
    /\ startswith(lower(second), kw)
    /\ LET rest == SubSeq(second, Len(kw) + 1, Len(second))
       IN  \/ IsNumberWithLetter(rest)
           \/ rest # << >> /\ IsSpace(rest[1]) /\ IsNumberWithLetter(Tail(rest))

\* is_address_2
IsAddress2(second) ==
  \/ \E kw \in KnownKeywords : startswith(lower(second), kw)
  \/ MatchesUnitNumber(second)
  \/ isupper(second) /\ WordCount(second) <= 3

\* if is_address_2 and len(parts) >= 6:
MinPartsWithAddress2 == 6
UsesAddress2_FiveParts(parts) == IsAddress2(parts[2]) /\ Len(parts) >= 5
UsesAddress2(parts) == IsAddress2(parts[2]) /\ Len(parts) >= MinPartsWithAddress2

US == <<"U", "S">>

\* the dictionary built from the segments
AddressFromParts(full_name, username, parts) ==
  IF UsesAddress2(parts)
  THEN [full_name |-> title(full_name),
        username |-> lower(username),
        address_line_1 |-> title(parts[1]),
        address_line_2 |-> title(parts[2]),
        city |-> title(parts[3]),
        state |-> upper(parts[4]),
        zip_code |-> parts[5],
        country |-> upper(IF Len(parts) > 5 THEN parts[6] ELSE US)]
  ELSE [full_name |-> title(full_name),
        username |-> lower(username),
        address_line_1 |-> title(parts[1]),
        address_line_2 |-> title(<< >>),
        city |-> title(parts[2]),
        state |-> upper(parts[3]),
        zip_code |-> parts[4],
        country |-> upper(IF Len(parts) > 4 THEN parts[5] ELSE US)]

\* if len(parts) < 4: return None
MinParts == 4

parse_packing_slip_address(text) ==
  LET lines == NonBlankLines(text)
      starts == { i \in DOMAIN lines : IsStartLine(lines[i]) }
  IN  IF starts = {} THEN NoParsedAddress
      ELSE LET start_index == CHOOSE i \in starts : \A j \in starts : i <= j
               line == lines[start_index]
               full_name == FullNameOf(line)
               username == strip(ParenContent(line, FirstParen(line, 2)))
               parts == Parts(AfterUsername(
                          JoinLines(SubSeq(lines, start_index, Len(lines)))))
           IN  IF full_name = << >> \/ username = << >> THEN NoParsedAddress
               ELSE IF Len(parts) < MinParts THEN NoParsedAddress
               ELSE AddressFromParts(full_name, username, parts)

(* ------------------------------ bin lookup ----------------------------- *)
\* row[0].strip().lower()
BinKey_Raw(username) == username
BinKey(username) == lower(strip(username))

\* bin_map = {row[0].strip().lower(): row[1] for row in cursor.fetchall()}
BinMapOf(rows) ==
  LET keys == { BinKey(rows[i].username) : i \in DOMAIN rows }
      last(k) == CHOOSE i \in DOMAIN rows :
                   /\ BinKey(rows[i].username) = k
                   /\ \A j \in DOMAIN rows : BinKey(rows[j].username) = k => j <= i
  IN  [k \in keys |-> rows[last(k)].bin_number]

\* bin_map.get(current_buyer), with current_buyer = username.lower()
BinMapGet(rows, username) ==
  LET current == lower(username)
  IN  IF current \in DOMAIN BinMapOf(rows) THEN BinMapOf(rows)[current] ELSE NoBin

\* `not username` is false
TruthyText(s) == s # NoneText /\ s # << >>

(* ------------------- the text of one label page, by line --------------- *)
ShipsToLine == <<"S", "h", "i", "p", "s", " ", "T", "o", ":">>
PickupToLine == <<"P", "i", "c", "k", "u", "p", " ", "T", "o", ":">>
PlaceholderLine == <<"(", "N", "e", "w", " ", "B", "u", "y", "e", "r", "!", ")">>
NameLine == <<" ", " ", "J", "a", "n", "e", " ", "D", "o", "e", " ", "(", " ", "C", "o", "o", "l", "B", "u", "y", "e", "r", "9", "9", " ", ")">>
FourPartLine == <<"1", " ", "A", " ", "S", "t", ",", " ", "T", "o", "w", "n", ",", " ", "I", "L", ",", " ", "6", "2", "7", "0", "4">>
FivePartUnitLine == <<"1", " ", "A", " ", "S", "t", ",", " ", "A", "p", "t", " ", "2", ",", " ", "T", "o", "w", "n", ",", " ", "I", "L", ",", " ", "6", "2", "7", "0", "4">>
SixPartUnitLine == <<"1", " ", "A", " ", "S", "t", ",", " ", "1", "2", "b", ",", " ", "T", "o", "w", "n", ",", " ", "I", "L", ",", " ", "6", "2", "7", "0", "4", ",", " ", "u", "s">>
LeadingGroupLine == <<"(", "x", ")", " ", "a", ",", " ", "b", ",", " ", "c", ",", " ", "d", " ", "(", "j", "a", "n", "e", "d", ")", " ", "e">>
InlineAddressLine == <<"B", "o", "b", " ", "R", "o", "e", " ", "(", "b", "o", "b", "r", ")", " ", "1", " ", "O", "a", "k", " ", "A", "v", "e", ",", " ", "C", "o", "l", "u", "m", "b", "u", "s", ",", " ", "O", "H", ",", " ", "4", "3", "0", "0", "4">>
BlankLine == << >>

LineSet ==
  { ShipsToLine, PickupToLine, PlaceholderLine, NameLine, FourPartLine,
    FivePartUnitLine, SixPartUnitLine, LeadingGroupLine, InlineAddressLine,
    BlankLine }

\* page_text.splitlines()
Texts == SeqsUpTo(LineSet, MaxLines)

\* rows of SELECT username, bin_number FROM bin_assignments
BinRow(username, bin_no) == [username |-> username, bin_number |-> bin_no]

BinRowTables ==
  { << >>,
    << BinRow(<<"c", "o", "o", "l", "b", "u", "y", "e", "r", "9", "9">>, 1) >>,
    << BinRow(<<"x">>, 1), BinRow(<<" ", " ", "C", "o", "o", "l", "B", "u", "y", "e", "r", "9", "9", " ">>, 2) >> }

InitText ==
  /\ page_text \in Texts
  /\ bin_rows \in BinRowTables
  /\ text_pc = "text"
  /\ identity = NoIdentity
  /\ parsed_address = NoParsedAddress
  /\ bin_number = NoBin
  /\ NoBidderManager
  /\ pages = << >>
  /\ bin_map = << >>
  /\ pc = "off"
  /\ page_index = 0
  /\ current_buyer = None
  /\ current_first_name = None
  /\ current_spent_total = 0
  /\ current_address_data = NoCurrentAddress
  /\ saved_usernames = {}
  /\ skipped_pages = << >>
  /\ out_pages = << >>
  /\ mailing_list = << >>
  /\ calls = << >>
  /\ output_written = FALSE

pipelineVars ==
  <<pages, bin_map, pc, page_index, current_buyer, current_first_name,
    current_spent_total, current_address_data, saved_usernames, skipped_pages,
    out_pages, mailing_list, calls, output_written>>

\* username, full_name = extract_username_and_pickup_firstname(page_text)
ExtractIdentity ==
  /\ text_pc = "text"
  /\ identity' = extract_username_and_pickup_firstname(page_text)
  /\ text_pc' = "identified"
  /\ UNCHANGED <<page_text, bin_rows, parsed_address, bin_number>>
  /\ UNCHANGED pipelineVars
  /\ UNCHANGED bidderVars

\* address_data = parse_packing_slip_address(page_text)
ParseAddress ==
  /\ text_pc = "identified"
  /\ parsed_address' = parse_packing_slip_address(page_text)
  /\ text_pc' = "parsed"
  /\ UNCHANGED <<page_text, bin_rows, identity, bin_number>>
  /\ UNCHANGED pipelineVars
  /\ UNCHANGED bidderVars

\* bin_number = bin_map.get(current_buyer), on a page with a username and
\* an address
LookupBin ==
  /\ text_pc = "parsed"
  /\ TruthyText(identity.username)
  /\ parsed_address # NoParsedAddress
  /\ bin_number' = BinMapGet(bin_rows, identity.username)
  /\ text_pc' = "looked_up"
  /\ UNCHANGED <<page_text, bin_rows, identity, parsed_address>>
  /\ UNCHANGED pipelineVars
  /\ UNCHANGED bidderVars

NextText == ExtractIdentity \/ ParseAddress \/ LookupBin

SpecText == InitText /\ [][NextText]_vars

(* ------------------- claims about the text functions ------------------- *)
Identified == text_pc \in {"identified", "parsed", "looked_up"}
Parsed == text_pc \in {"parsed", "looked_up"}

MarkerLines == {ShipsToLine, PickupToLine}

\* the first marker line of the text is m
FirstMarkerIs(text, m) ==
  \E i \in DOMAIN text :
    /\ text[i] = m
    /\ \A j \in 1 .. (i - 1) : text[j] \notin MarkerLines

\* the same content under the other marker
SwapMarkers(text) ==
  [i \in DOMAIN text |->
     IF text[i] = ShipsToLine THEN PickupToLine
     ELSE IF text[i] = PickupToLine THEN ShipsToLine
     ELSE text[i]]

\* C13: the same name and username content gives the same username under
\* "ships to:" and under "pickup to:", and under "ships to:" the first name
\* is always null.
C13_ShipsToHasNoFirstName ==
  (Identified /\ FirstMarkerIs(page_text, ShipsToLine)) =>
    /\ identity.username =
         extract_username_and_pickup_firstname(SwapMarkers(page_text)).username
    /\ identity.first_name = NoneText

\* what a line holds between its first parentheses, trimmed and lowercased
GroupOf(line) ==
  LET t == strip(line) IN lower(strip(ParenContent(t, FirstParen(t, 1))))

\* the lines after the first marker that hold a parenthesized group other
\* than the placeholder
RealMatches(text) ==
  { i \in DOMAIN text :
      /\ \E m \in 1 .. (i - 1) : text[m] \in MarkerLines
      /\ FirstParen(strip(text[i]), 1) # 0
      /\ GroupOf(text[i]) # NewBuyer }

\* C14: the placeholder "new buyer!" is never returned as username, in any
\* casing: the username is the one of the first line after the marker whose
\* parenthesized group is not the placeholder, and the result is
\* (None, None) when there is no marker or no such line.
C14_PlaceholderNeverReturned ==
  Identified =>
    /\ lower(identity.username) # NewBuyer
    /\ \A real \in {RealMatches(page_text)} :
         IF real = {}
         THEN identity = NoIdentity
         ELSE \E first \in real :
                /\ \A j \in real : first <= j
                /\ identity.username = GroupOf(page_text[first])

C14_Witness ==
  /\ Identified
  /\ page_text = <<ShipsToLine, PlaceholderLine, NameLine>>
  /\ identity.username = <<"c", "o", "o", "l", "b", "u", "y", "e", "r", "9", "9">>

\* C15: the buyer of the page gets the bin of every bin_assignments row
\* whose username equals the buyer's after trimming and lowercasing.
C15_BinLookupNormalized ==
  text_pc = "looked_up" =>
    \A i \in DOMAIN bin_rows :
      strip(lower(bin_rows[i].username)) = strip(lower(identity.username))
        => bin_number = bin_rows[i].bin_number

C15_Witness ==
  /\ text_pc = "looked_up"
  /\ \E i \in DOMAIN bin_rows : bin_rows[i].username = <<" ", " ", "C", "o", "o", "l", "B", "u", "y", "e", "r", "9", "9", " ">>
  /\ GroupOf(NameLine) = identity.username
  /\ bin_number = 2

\* the non-blank lines from the first one that holds a name and a
\* parenthesized username, joined
AddressBlock(text) ==
  LET lines == NonBlankLines(text)
      starts == { i \in DOMAIN lines : IsStartLine(lines[i]) }
  IN  IF starts = {} THEN << >>
      ELSE JoinLines(SubSeq(lines,
                            CHOOSE i \in starts : \A j \in starts : i <= j,
                            Len(lines)))

\* the segments left when the text up to the parenthesized username is
\* removed
SegmentsAfterUsername(text) ==
  LET block == AddressBlock(text)
      q == FirstParen(block, 2)
  IN  IF q = 0 THEN << >>
      ELSE Parts(SubSeq(block, CloseOf(block, q) + 1, Len(block)))

\* C16: with fewer than 4 segments after the parenthesized username the
\* result is None; a returned address takes address_line_1, city, state and
\* zip_code from four distinct segments.
C16_FewSegmentsGiveNone ==
  Parsed =>
    /\ Len(SegmentsAfterUsername(page_text)) < 4
         => parsed_address = NoParsedAddress
    /\ parsed_address # NoParsedAddress =>
         \E a, c, t, z \in DOMAIN SegmentsAfterUsername(page_text) :
           /\ a < c /\ c < t /\ t < z
           /\ parsed_address.address_line_1 = title(SegmentsAfterUsername(page_text)[a])
           /\ parsed_address.city = title(SegmentsAfterUsername(page_text)[c])
           /\ parsed_address.state = upper(SegmentsAfterUsername(page_text)[t])
           /\ parsed_address.zip_code = SegmentsAfterUsername(page_text)[z]

\* the segments the function splits the address into
Segments(text) == Parts(AfterUsername(AddressBlock(text)))

UnitKeywords == { <<"s", "t", "e">>, <<"a", "p", "t">>, <<"u", "n", "i", "t">>, <<"f", "l">>, <<"b", "l", "d", "g">>, <<"#">> }

\* a unit keyword prefix, a bare number with an optional letter, or at most
\* three fully uppercase words
LooksLikeUnit(segment) ==
  \/ \E kw \in UnitKeywords : startswith(lower(segment), kw)
  \/ /\ \E n \in DOMAIN segment :
          /\ \A i \in 1 .. n : IsDigit(segment[i])
          /\ n >= Len(segment) - 1
     /\ \A i \in DOMAIN segment : IsDigit(segment[i]) \/ IsLetter(segment[i])
  \/ /\ segment = upper(segment)
     /\ segment # lower(segment)
     /\ WordCount(segment) <= 3

\* C17: segment[1] becomes address_line_2, and city, state, zip and country
\* are segments 2..5, exactly when segment[1] looks like a unit and at least
\* 6 segments remain; otherwise address_line_2 is empty, city, state and zip
\* are segments 1..3 and country is segment 4, or "US" when absent.
C17_Address2NeedsUnitAndSixParts ==
  (Parsed /\ parsed_address # NoParsedAddress) =>
    \A seg \in {Segments(page_text)} :
        IF LooksLikeUnit(seg[2]) /\ Len(seg) >= 6
        THEN /\ parsed_address.address_line_2 = title(seg[2])
             /\ parsed_address.city = title(seg[3])
             /\ parsed_address.state = upper(seg[4])
             /\ parsed_address.zip_code = seg[5]
             /\ parsed_address.country = upper(seg[6])
        ELSE /\ parsed_address.address_line_2 = << >>
             /\ parsed_address.city = title(seg[2])
             /\ parsed_address.state = upper(seg[3])
             /\ parsed_address.zip_code = seg[4]
             /\ parsed_address.country =
                  IF Len(seg) >= 5 THEN upper(seg[5]) ELSE <<"U", "S">>

C17_Witness ==
  /\ Parsed
  /\ page_text = <<ShipsToLine, NameLine, SixPartUnitLine>>
  /\ parsed_address.address_line_2 = <<"1", "2", "B">>
  /\ parsed_address.city = <<"T", "o", "w", "n">>
  /\ parsed_address.country = <<"U", "S">>

(* ------------------- further claims about the run ---------------------- *)
\* the pickup page of janed, a continuation page, the shipping page of bobr
ScenarioPages ==
  << Page(TRUE, TRUE, "janed", "Jane Doe",
          Address("Jane Doe", "janed", "123 Main St", "", "62704"), 2000),
     Page(FALSE, FALSE, None, None, NoAddress, 500),
     Page(FALSE, TRUE, "bobr", None,
          Address("Bob Roe", "bobr", "1 Oak Ave", "", "43004"), 999) >>

ScenarioRun ==
  /\ pc = "done"
  /\ pages = ScenarioPages
  /\ "bobr" \notin DOMAIN bin_map

ScenarioRecords ==
  /\ \E i \in DOMAIN mailing_list :
       mailing_list[i].username = "janed" /\ mailing_list[i].spent = 2500
  /\ \E n \in DOMAIN skipped_pages : skipped_pages[n] = <<2, "bobr">>
  /\ Len(out_pages) = 3

C26_StampedBinIsOfPageBuyer ==
  \A n \in DOMAIN out_pages :
    out_pages[n].overlay.kind = "bin" =>
      LET k == out_pages[n].src
      IN  /\ IsOrderStart(k)
          /\ PageAt(k).username \in DOMAIN bin_map
          /\ out_pages[n].overlay.bin = bin_map[PageAt(k).username]

\* a binned buyer is current when a boundary page fails
C26_Witness ==
  /\ Len(out_pages) >= 2
  /\ out_pages[1].overlay.kind = "bin"
  /\ IsBoundaryPage(1) /\ ~IsOrderStart(1)
  /\ current_buyer = PageAt(0).username
  /\ out_pages[2].overlay = NoOverlay

\* the last boundary page at or before page j, or -1
LastBoundary(j) ==
  LET earlier == { b \in PageIndices : b <= j /\ IsBoundaryPage(b) }
  IN  IF earlier = {} THEN 0 - 1
      ELSE CHOOSE b \in earlier : \A m \in earlier : m <= b

\* the pages of the order started on page k: the page itself and the
\* pages after it up to the next boundary page, failed or not
PagesOfOrder(k) == { j \in PageIndices : LastBoundary(j) = k }

\* page j is a failed boundary page or follows one with no successful
\* boundary page in between
InFailedRun(j) == LastBoundary(j) >= 0 /\ ~IsOrderStart(LastBoundary(j))

RECURSIVE SumOver(_)
SumOver(S) ==
  IF S = {} THEN 0
  ELSE LET j == CHOOSE x \in S : TRUE
       IN  PageAt(j).spent + SumOver(S \ {j})

\* C27: the spent of every entry handed to the mailing list is the amount of
\* the pages of one order, none of which is a failed boundary page or a
\* continuation page that follows one.
C27_FailedRunAmountsDropped ==
  \A n \in DOMAIN calls :
    \E k \in PageIndices :
      /\ IsOrderStart(k)
      /\ PageAt(k).username = calls[n].username
      /\ \A j \in PagesOfOrder(k) : ~InFailedRun(j)
      /\ calls[n].spent = SumOver(PagesOfOrder(k))

\* the running total grew on a continuation page after a failed boundary
\* page, and the run ended
C27_Witness ==
  /\ pc = "done"
  /\ Len(pages) = 3
  /\ IsOrderStart(0)
  /\ IsBoundaryPage(1) /\ ~IsOrderStart(1)
  /\ ~IsBoundaryPage(2)
  /\ current_spent_total = PageAt(2).spent
  /\ Len(calls) = 1
  /\ calls[1].spent = PageAt(0).spent

\* C28 as stated: a run that aborted while iterating the pages has left
\* the mailing list as it was before the run.
C28_AbortPersistsNothing ==
  pc = "failed" => mailing_list = << >>

\* C25 as stated: on a page where the identity extraction and the address
\* parsing both succeed, the username found by parse_packing_slip_address
\* is the username returned by extract_username_and_pickup_firstname.
C25_ParserAndExtractorAgree ==
  (Parsed /\ TruthyText(identity.username)
          /\ parsed_address # NoParsedAddress) =>
    parsed_address.username = identity.username

(* ----------------------------- BidderManager --------------------------- *)
MaxTransactions == 1
MaxGiveaways == 1
MaxCsvRows == 1

\* giveaway_num = None
NoGiveaway == 0

\* the username argument, as typed
Usernames == { <<"j", "a", "n", "e", "d">>, <<" ", "J", "a", "n", "e", "D", " ">>, <<"b", "o", "b", "r">>, << >> }

\* qty
Quantities == {0, 1}

\* variant: the username is stored as typed
Uname_Raw(username) == username

\* uname = username.strip().lower()
Uname(username) == lower(strip(username))

\* dict[k] = v, and INSERT OR REPLACE of a row keyed k
Put(f, k, v) == [x \in (DOMAIN f) \cup {k} |-> IF x = k THEN v ELSE f[x]]

\* if not username or not isinstance(username, str): raise ValueError
InvalidUsername(username) == username = << >>

\* SELECT bin_number FROM bin_assignments WHERE username = ? finds a row
HasBin(ba, uname) == uname \in DOMAIN ba

\* assign_bin: the bin number returned
AssignedBin(ba, counter, uname) ==
  IF HasBin(ba, uname) THEN ba[uname] ELSE counter + 1

\* assign_bin: bin_assignments after the call
AssignedTable(ba, counter, uname) ==
  IF HasBin(ba, uname) THEN ba ELSE Put(ba, uname, counter + 1)

\* assign_bin: bin_counter after the call
AssignedCounter(ba, counter, uname) ==
  IF HasBin(ba, uname) THEN counter ELSE counter + 1

Raised(op, username, is_giveaway) ==
  [op |-> op, username |-> username, is_giveaway |-> is_giveaway,
   outcome |-> "raised", bin_num |-> NoBin, giveaway_num |-> NoGiveaway]

Returned(op, username, is_giveaway, bin_num, giveaway_num) ==
  [op |-> op, username |-> username, is_giveaway |-> is_giveaway,
   outcome |-> "returned", bin_num |-> bin_num, giveaway_num |-> giveaway_num]

\* BidderManager.assign_bin(username)
assign_bin ==
  \E username \in Usernames :
    IF InvalidUsername(username)
    THEN /\ last_call' = Raised("assign_bin", username, FALSE)
         /\ UNCHANGED <<bin_assignments, bidders_table, bin_counter,
                        giveaway_counter, bidders>>
         /\ UNCHANGED <<pipelineVars, textVars>>
    ELSE /\ bin_assignments' =
              AssignedTable(bin_assignments, bin_counter, Uname(username))
         /\ bin_counter' =
              AssignedCounter(bin_assignments, bin_counter, Uname(username))
         /\ last_call' =
              Returned("assign_bin", username, FALSE,
                       AssignedBin(bin_assignments, bin_counter, Uname(username)),
                       NoGiveaway)
         /\ UNCHANGED <<bidders_table, giveaway_counter, bidders>>
         /\ UNCHANGED <<pipelineVars, textVars>>

\* variant: a giveaway is given a bin as well
TracksBin_Always(is_giveaway) == TRUE

\* if is_giveaway: ... else: bin_num = self.assign_bin(uname)
TracksBin(is_giveaway) == ~is_giveaway

\* the validation ahead of the try block
Rejected(username, qty, is_giveaway) ==
  \/ InvalidUsername(username)
  \/ qty = 0 /\ ~is_giveaway

\* the row of INSERT INTO bidders
BidderRow(uname, original, qty, is_giveaway, bin_num, giveaway_num) ==
  [username |-> uname, original_username |-> original, quantity |-> qty,
   is_giveaway |-> is_giveaway, bin_number |-> bin_num,
   giveaway_number |-> giveaway_num]

\* if uname not in self.bidders: self.bidders[uname] = {...};
\* self.bidders[uname]["transactions"].append({...})
CacheAdd(cache, uname, original, bin_num) ==
  IF uname \in DOMAIN cache
  THEN [cache EXCEPT ![uname].transactions = @ + 1]
  ELSE Put(cache, uname,
           [original_username |-> original, bin |-> bin_num, transactions |-> 1])

\* BidderManager.add_transaction(username, username, qty, None, is_giveaway),
\* as add_bidder calls it; the INSERT INTO bidders succeeds or raises
\* sqlite3.Error
add_transaction ==
  \E username \in Usernames, qty \in Quantities,
     is_giveaway \in BOOLEAN, insert_ok \in BOOLEAN :
    LET uname == Uname(username)
        rejected == Rejected(username, qty, is_giveaway)
        bin_num == IF TracksBin(is_giveaway)
                   THEN AssignedBin(bin_assignments, bin_counter, uname)
                   ELSE NoBin
        giveaway_num == IF is_giveaway THEN giveaway_counter + 1 ELSE NoGiveaway
    IN  /\ (is_giveaway /\ ~rejected) => giveaway_counter < MaxGiveaways
        /\ (insert_ok /\ ~rejected) => Len(bidders_table) < MaxTransactions
        /\ UNCHANGED <<pipelineVars, textVars>>
        /\ IF rejected
           THEN /\ last_call' = Raised("add_transaction", username, is_giveaway)
                /\ UNCHANGED <<bin_assignments, bidders_table, bin_counter,
                               giveaway_counter, bidders>>
           ELSE /\ giveaway_counter' =
                     IF is_giveaway THEN giveaway_counter + 1 ELSE giveaway_counter
                /\ bin_assignments' =
                     IF TracksBin(is_giveaway)
                     THEN AssignedTable(bin_assignments, bin_counter, uname)
                     ELSE bin_assignments
                /\ bin_counter' =
                     IF TracksBin(is_giveaway)
                     THEN AssignedCounter(bin_assignments, bin_counter, uname)
                     ELSE bin_counter
                /\ IF insert_ok
                   THEN /\ bidders_table' =
                             Append(bidders_table,
                                    BidderRow(uname, username, qty, is_giveaway,
                                              bin_num, giveaway_num))
                        /\ bidders' = CacheAdd(bidders, uname, username, bin_num)
                        /\ last_call' =
                             Returned("add_transaction", username, is_giveaway,
                                      bin_num, giveaway_num)
                   ELSE /\ UNCHANGED <<bidders_table, bidders>>
                        /\ last_call' =
                             Raised("add_transaction", username, is_giveaway)

\* one data row of the CSV: the username, quantity, is_giveaway, bin_number
\* and giveaway_number columns (0 for an empty cell)
CsvRow(username, is_giveaway, bin_num, giveaway_num) ==
  [username |-> username, quantity |-> 1, is_giveaway |-> is_giveaway,
   bin_number |-> bin_num, giveaway_number |-> giveaway_num]

CsvRows ==
  { CsvRow(<<"j", "a", "n", "e", "d">>, FALSE, 1, NoGiveaway),
    CsvRow(<<" ", "B", "o", "b", "R", " ">>, FALSE, 1, NoGiveaway),
    CsvRow(<<"b", "o", "b", "r">>, FALSE, 2, NoGiveaway),
    CsvRow(<<"j", "a", "n", "e", "d">>, TRUE, NoBin, 1) }

\* a file as export_csv writes it: a bin number belongs to one username
WellFormedCsv(file) ==
  \A i, j \in DOMAIN file :
    (file[i].bin_number # NoBin /\ file[i].bin_number = file[j].bin_number)
      => Uname(file[i].username) = Uname(file[j].username)

CsvFiles == { file \in SeqsUpTo(CsvRows, MaxCsvRows) : WellFormedCsv(file) }

Max(a, b) == IF a >= b THEN a ELSE b

\* the manager and the tables, as one value
ManagerState(ba, table, counter, giveaways, cache) ==
  [bin_assignments |-> ba, bidders_table |-> table, bin_counter |-> counter,
   giveaway_counter |-> giveaways, bidders |-> cache]

\* the body of `for row_num, row in enumerate(reader, start=2)`
ImportRow(st, row) ==
  LET uname == Uname(row.username)
  IN  ManagerState(
        IF row.bin_number # NoBin
        THEN Put(st.bin_assignments, uname, row.bin_number)
        ELSE st.bin_assignments,
        Append(st.bidders_table,
               BidderRow(uname, strip(row.username), row.quantity,
                         row.is_giveaway, row.bin_number, row.giveaway_number)),
        IF row.bin_number # NoBin
        THEN Max(st.bin_counter, row.bin_number)
        ELSE st.bin_counter,
        IF row.giveaway_number # NoGiveaway
        THEN Max(st.giveaway_counter, row.giveaway_number)
        ELSE st.giveaway_counter,
        CacheAdd(st.bidders, uname, strip(row.username), row.bin_number))

RECURSIVE ImportRows(_, _)
ImportRows(st, file) ==
  IF file = << >> THEN st
  ELSE ImportRows(ImportRow(st, file[1]), Tail(file))

\* BidderManager.import_csv(file_path): the cache and the counters are
\* reset, bin_assignments and bidders keep their rows
import_csv ==
  \E file \in CsvFiles :
    LET st == ImportRows(ManagerState(bin_assignments, bidders_table, 0, 0, << >>),
                         file)
    IN  /\ Len(bidders_table) + Len(file) <= MaxTransactions
        /\ bin_assignments' = st.bin_assignments
        /\ bidders_table' = st.bidders_table
        /\ bin_counter' = st.bin_counter
        /\ giveaway_counter' = st.giveaway_counter
        /\ bidders' = st.bidders
        /\ last_call' = Returned("import_csv", << >>, FALSE, NoBin, NoGiveaway)
        /\ UNCHANGED <<pipelineVars, textVars>>

\* BidderManager.clear_all_bidders()
clear_all_bidders ==
  /\ bin_assignments' = << >>
  /\ bidders_table' = << >>
  /\ bin_counter' = 0
  /\ giveaway_counter' = 0
  /\ bidders' = << >>
  /\ last_call' = Returned("clear_all_bidders", << >>, FALSE, NoBin, NoGiveaway)
  /\ UNCHANGED <<pipelineVars, textVars>>

\* BidderManager(bidders_db_path, subs_db_path) over the same database: the
\* tables are kept (CREATE TABLE IF NOT EXISTS), the counters and the cache
\* start anew
Construct ==
  /\ bin_counter' = 0
  /\ giveaway_counter' = 0
  /\ bidders' = << >>
  /\ last_call' = Returned("init", << >>, FALSE, NoBin, NoGiveaway)
  /\ UNCHANGED <<bin_assignments, bidders_table>>
  /\ UNCHANGED <<pipelineVars, textVars>>

\* a bidders.db without rows and a BidderManager constructed on it
InitBidders ==
  /\ bin_assignments = << >>
  /\ bidders_table = << >>
  /\ bin_counter = 0
  /\ giveaway_counter = 0
  /\ bidders = << >>
  /\ last_call = NoCall
  /\ page_text = << >>
  /\ bin_rows = << >>
  /\ text_pc = "off"
  /\ identity = NoIdentity
  /\ parsed_address = NoParsedAddress
  /\ bin_number = NoBin
  /\ pages = << >>
  /\ bin_map = << >>
  /\ pc = "off"
  /\ page_index = 0
  /\ current_buyer = None
  /\ current_first_name = None
  /\ current_spent_total = 0
  /\ current_address_data = NoCurrentAddress
  /\ saved_usernames = {}
  /\ skipped_pages = << >>
  /\ out_pages = << >>
  /\ mailing_list = << >>
  /\ calls = << >>
  /\ output_written = FALSE

NextBidders ==
  \/ assign_bin
  \/ add_transaction
  \/ import_csv
  \/ clear_all_bidders
  \/ Construct

SpecBidders == InitBidders /\ [][NextBidders]_vars

(* ---------------------- claims about BidderManager --------------------- *)
\* a username, trimmed and lowercased
Canon(username) == strip(lower(username))

\* the step is a call of assign_bin, or of add_transaction for a bid
BinCall ==
  \/ last_call'.op = "assign_bin"
  \/ last_call'.op = "add_transaction" /\ ~last_call'.is_giveaway

\* the step gives a bin to u, which had none
NewlyAssigned(u) ==
  /\ BinCall
  /\ u \notin DOMAIN bin_assignments
  /\ u \in DOMAIN bin_assignments'

\* C22 as stated: a bin given to a username that has none is at least 1 and
\* greater than every bin number present in bin_assignments.
C22_NewBinAboveAll ==
  [][\A u \in DOMAIN bin_assignments' :
       NewlyAssigned(u) =>
         /\ bin_assignments'[u] >= 1
         /\ \A v \in DOMAIN bin_assignments :
              bin_assignments[v] < bin_assignments'[u]]_vars

C24_BinsAreDistinct ==
  \A u, v \in DOMAIN bin_assignments :
    u # v => bin_assignments[u] # bin_assignments[v]

\* C29: a call of assign_bin, or of add_transaction for a bid, for a
\* spelling of a username that has a bin leaves bin_assignments as it is
\* and, when it returns, returns that bin.
C29_BinStablePerUsername ==
  [][(BinCall /\ Canon(last_call'.username) \in DOMAIN bin_assignments) =>
       /\ bin_assignments' = bin_assignments
       /\ last_call'.outcome = "returned" =>
            last_call'.bin_num = bin_assignments[Canon(last_call'.username)]]_vars

\* the bin of janed was asked again under another spelling, after the
\* manager was constructed anew
C29_Witness ==
  /\ last_call.op = "add_transaction"
  /\ last_call.outcome = "returned"
  /\ last_call.username = <<" ", "J", "a", "n", "e", "D", " ">>
  /\ bin_counter = 0
  /\ DOMAIN bin_assignments = { <<"j", "a", "n", "e", "d">> }
  /\ last_call.bin_num = bin_assignments[<<"j", "a", "n", "e", "d">>]

\* C30 as stated: an add_transaction that raises leaves bin_assignments,
\* bin_counter, giveaway_counter and the cache as they were.
C30_FailedTransactionChangesNothing ==
  [][(last_call'.op = "add_transaction" /\ last_call'.outcome = "raised") =>
       /\ bin_assignments' = bin_assignments
       /\ bin_counter' = bin_counter
       /\ giveaway_counter' = giveaway_counter
       /\ bidders' = bidders]_vars

====
